---- MODULE Spec2Model ----
(* A model of the GetRes resource-hint extension (src/extension.js):        *)
(* the resource store and its asynchronous refresh, the tree builder, the   *)
(* path resolver, and the getRes(<digits>) scanner with its decoration,     *)
(* status-bar, hover and completion projections.                            *)
(*                                                                          *)
(* Text that the code indexes (document lines, the digit run of a token) is *)
(* a sequence of one-character strings, 1-based here and 0-based in the     *)
(* code; text that the code only builds and shows (names, paths, the status *)
(* text) is a TLA+ string.                                                  *)
EXTENDS Integers, Sequences, FiniteSets, TLC

(***************************************************************************)
(* Bounds of the model.                                                    *)
(***************************************************************************)
\* Resource ids of the generated snapshots are 0..MaxId.
MaxId == 2
\* A generated snapshot holds at most MaxRecords records.
MaxRecords == 3
\* The step-wise parent walk is followed until its path holds MaxPath names.
MaxPath == 5
\* Refreshes in flight at once, in the specification of the store.
MaxInFlight == 2
\* Refreshes in flight at once, in the specifications of the editor.
MaxInFlightEditor == 1

(***************************************************************************)
(* Values.                                                                 *)
(***************************************************************************)
\* A pid that is null or missing. No id equals it.
Null == -1
\* The result of Array.prototype.find (and of String.prototype.match) when
\* nothing is found, and of a function that returns nothing.
Undefined == [undefined |-> TRUE]

Range(s) == {s[i] : i \in DOMAIN s}

Names == <<"A", "B", "C", "D", "E", "F">>
\* The display name given to the record of id i in the generated snapshots.
NameOf(i) == Names[i + 1]

Resource(i, p, n, c) == [id |-> i, pid |-> p, name |-> n, code |-> c]

(***************************************************************************)
(* Text helpers.                                                           *)
(***************************************************************************)
Digits == <<"0", "1", "2", "3", "4", "5", "6", "7", "8", "9">>
IsDigit(c) == c \in Range(Digits)

\* The characters of Number.prototype.toString() for n >= 0.
RECURSIVE ToStringChars(_)
ToStringChars(n) ==
  IF n < 10 THEN <<Digits[n + 1]>>
  ELSE ToStringChars(n \div 10) \o <<Digits[(n % 10) + 1]>>

\* The string spelled by a sequence of characters.
RECURSIVE Str(_)
Str(cs) == IF cs = <<>> THEN "" ELSE cs[1] \o Str(Tail(cs))

\* Array.prototype.join
RECURSIVE Join(_, _)
Join(parts, sep) ==
  IF parts = <<>> THEN ""
  ELSE IF Len(parts) = 1 THEN parts[1]
  ELSE parts[1] \o sep \o Join(Tail(parts), sep)

(***************************************************************************)
(* getResourcePath                                                         *)
(***************************************************************************)
\* tree.find((r) => r.id === id): the first record of that id.
Find(tree, id) ==
  IF \E i \in DOMAIN tree : tree[i].id = id
  THEN tree[CHOOSE i \in DOMAIN tree :
              /\ tree[i].id = id
              /\ \A j \in DOMAIN tree : tree[j].id = id => i <= j]
  ELSE Undefined

\* const path = [resource.name]; let parent = tree.find(...)
WalkInit(resource, tree) ==
  [path |-> <<resource.name>>, parent |-> Find(tree, resource.pid)]

\* A loop body with push in place of unshift.
WalkBodyPush(w, tree) ==
  [path |-> w.path \o <<w.parent.name>>, parent |-> Find(tree, w.parent.pid)]

\* The loop body: path.unshift(parent.name); parent = tree.find(...)
WalkBody(w, tree) ==
  [path |-> <<w.parent.name>> \o w.path, parent |-> Find(tree, w.parent.pid)]

\* while (parent) { ... }, followed for at most fuel iterations.
RECURSIVE WalkLoop(_, _, _)
WalkLoop(w, tree, fuel) ==
  IF w.parent = Undefined \/ fuel = 0 THEN w
  ELSE WalkLoop(WalkBody(w, tree), tree, fuel - 1)

\* The walk only ever stands on the first record of an id, so a walk that
\* still has a parent after Len(tree) iterations has come back to a record
\* it left: the loop has no exit and getResourcePath never returns.
Diverges(resource, tree) ==
  WalkLoop(WalkInit(resource, tree), tree, Len(tree)).parent # Undefined

\* The value getResourcePath returns, when it returns.
getResourcePath(resource, tree) ==
  Join(WalkLoop(WalkInit(resource, tree), tree, Len(tree)).path, "-")

(***************************************************************************)
(* buildResourceTree                                                       *)
(***************************************************************************)
\* (pid) in a condition: null, undefined and 0 are falsy.
Truthy(pid) == pid # Null /\ pid # 0

\* The ids of a set, ascending: the order of Object.values over integer keys.
RECURSIVE Ascending(_)
Ascending(S) ==
  IF S = {} THEN <<>>
  ELSE LET m == CHOOSE x \in S : \A y \in S : x <= y
       IN <<m>> \o Ascending(S \ {m})

\* The keys of `tree` after the first forEach.
TreeKeys(records) == {records[i].id : i \in DOMAIN records}

\* tree[id] after the first forEach: the last record of that id.
TreeEntry(records, id) ==
  records[CHOOSE i \in DOMAIN records :
            /\ records[i].id = id
            /\ \A j \in DOMAIN records : records[j].id = id => j <= i]

\* tree[id].children after the second forEach, as the ids of the nodes
\* pushed, in the order they were pushed.
RECURSIVE ChildrenOf(_, _)
ChildrenOf(records, id) ==
  IF records = <<>> THEN <<>>
  ELSE LET r == records[Len(records)]
           before == ChildrenOf(SubSeq(records, 1, Len(records) - 1), id)
       IN IF Truthy(r.pid) /\ r.pid = id THEN Append(before, r.id) ELSE before

\* Object.values(tree).filter((resource) => !resource.pid)
IsRootNode(node) == ~Truthy(node.pid)

\* The forest: the root nodes in the order of Object.values, and each
\* node's record and children.
buildResourceTree(records) ==
  LET keys == TreeKeys(records)
      node == [id \in keys |->
                 [record |-> TreeEntry(records, id),
                  children |-> ChildrenOf(records, id)]]
  IN [roots |-> SelectSeq(Ascending(keys), LAMBDA id : IsRootNode(node[id].record)),
      nodes |-> node]

(***************************************************************************)
(* The token grammar: /getRes\((\d+)\)/                                    *)
(***************************************************************************)
Literal == <<"g", "e", "t", "R", "e", "s", "(">>

\* The length of the run of digits of text from 1-based position p on.
RECURSIVE DigitRun(_, _)
DigitRun(text, p) ==
  IF p <= Len(text) /\ IsDigit(text[p]) THEN 1 + DigitRun(text, p + 1) ELSE 0

\* The match of the pattern at 0-based index i of text, or Undefined. \d+ is
\* greedy, and giving digits back never helps: what follows a shorter run is
\* a digit, not the closing parenthesis.
MatchAt(text, i) ==
  LET n == DigitRun(text, i + Len(Literal) + 1)
  IN IF /\ i + Len(Literal) <= Len(text)
        /\ text[i + 1] = Literal[1]
        /\ SubSeq(text, i + 1, i + Len(Literal)) = Literal
        /\ n >= 1
        /\ i + Len(Literal) + n + 1 <= Len(text)
        /\ text[i + Len(Literal) + n + 1] = ")"
     THEN [index |-> i,
           group |-> SubSeq(text, i + Len(Literal) + 1, i + Len(Literal) + n),
           length |-> Len(Literal) + n + 1]
     ELSE Undefined

\* RegExp.prototype.exec from lastIndex: the start positions are tried from
\* left to right, and the first that matches wins.
RECURSIVE RegexExec(_, _)
RegexExec(text, lastIndex) ==
  IF lastIndex >= Len(text) THEN Undefined
  ELSE IF MatchAt(text, lastIndex) # Undefined THEN MatchAt(text, lastIndex)
  ELSE RegexExec(text, lastIndex + 1)

\* lineText.matchAll(/.../g): each match resumes where the last one ended.
RECURSIVE MatchAll(_, _)
MatchAll(text, lastIndex) ==
  LET m == RegexExec(text, lastIndex)
  IN IF m = Undefined THEN <<>>
     ELSE <<m>> \o MatchAll(text, m.index + m.length)

(***************************************************************************)
(* Inputs: what the database returns and what the editor holds.            *)
(***************************************************************************)
\* Scenario A of the specification: B under A.
DataA ==
  <<Resource(1, Null, "A", "a"), Resource(2, 1, "B", "b")>>
\* A two-digit id, another parent for id 2, and a parent that does not exist.
DataB ==
  <<Resource(10, Null, "C", "c"), Resource(2, 10, "D", "d"),
    Resource(3, 9, "E", "e")>>
\* The cycle scenario of the specification, and a record outside the cycle.
DataC ==
  <<Resource(1, 2, "A", "a"), Resource(2, 1, "B", "b"),
    Resource(3, Null, "E", "e")>>
\* The record sets collection.find().toArray() may return.
DataSets == {DataA, DataB, DataC}

\* getRes(<d>)
Token(d) == Literal \o d \o <<")">>
\* "x = getRes(2)": the line of scenarios B and C.
LineX == <<"x", " ", "=", " ">> \o Token(<<"2">>)
\* The documents the editor may hold. A document has at least one line.
EmptyDocument == << <<>> >>
Buffers ==
  { <<LineX>>,
    <<Token(<<"2">>) \o Token(<<"1", "0">>), Token(<<"x">>) \o Token(<<"1">>)>>,
    <<Token(<<"0", "2">>), Token(<<"3">>)>> }
\* The one document of the specification of the store.
StoreBuffers == { <<Token(<<"2">>)>> }

\* Every line the editor may hold.
Lines == UNION {Range(lines) : lines \in Buffers \cup StoreBuffers \cup {EmptyDocument}}

\* lineText.matchAll(/getRes\((\d+)\)/g) and lineText.match(/getRes\((\d+)\)/)
\* for every line, computed once.
MatchAllOf == [text \in Lines |-> MatchAll(text, 0)]
MatchOf == [text \in Lines |-> RegexExec(text, 0)]

\* resources.find((r) => r.id.toString() === resourceId)
FindByIdString(res, resourceId) ==
  IF \E i \in DOMAIN res : ToStringChars(res[i].id) = resourceId
  THEN res[CHOOSE i \in DOMAIN res :
             /\ ToStringChars(res[i].id) = resourceId
             /\ \A j \in DOMAIN res :
                  ToStringChars(res[j].id) = resourceId => i <= j]
  ELSE Undefined

(***************************************************************************)
(* handleSelectionChange, as a function of what it reads                   *)
(***************************************************************************)
\* match.index + 7
IdStart(match) == match.index + 7
\* idStart + resourceId.length
IdEnd(match) == IdStart(match) + Len(match.group)

\* An overlap test that looks at the line alone.
IsOnIdLineOnly(active, i, idStart, idEnd) == active.line = i

\* An overlap test whose end bound is exclusive.
IsOnIdExclusive(active, i, idStart, idEnd) ==
  active.line = i /\ active.character >= idStart /\ active.character < idEnd

\* isOnId
IsOnId(active, i, idStart, idEnd) ==
  active.line = i /\ active.character >= idStart /\ active.character <= idEnd

\* A decoration placed at the start of the id.
DecorationAtStart(i, match, path) ==
  [line |-> i, character |-> IdStart(match), contentText |-> path]

\* The decoration pushed for a match: an empty range at idEnd, the path after it.
Decoration(i, match, path) ==
  [line |-> i, character |-> IdEnd(match), contentText |-> path]

\* statusBarItem.text = `${resourceId}:${path}`; statusBarItem.show()
StatusFor(match, path) ==
  [text |-> Str(match.group) \o ":" \o path, visible |-> TRUE]

\* The body of the inner loop for one match on line i; acc holds the
\* decorations pushed and the state of the status bar item so far, and
\* whether the handler has entered a call of getResourcePath that has no end.
ProcessMatch(acc, i, match, active, res) ==
  LET resource == FindByIdString(res, match.group)
  IN IF acc.hung \/ resource = Undefined THEN acc
     ELSE IF Diverges(resource, res) THEN [acc EXCEPT !.hung = TRUE]
     ELSE LET path == getResourcePath(resource, res)
              isOnId == IsOnId(active, i, IdStart(match), IdEnd(match))
          IN [decorations |->
                IF ~isOnId THEN Append(acc.decorations, Decoration(i, match, path))
                ELSE acc.decorations,
              status |-> IF isOnId THEN StatusFor(match, path) ELSE acc.status,
              hung |-> FALSE]

RECURSIVE ProcessMatches(_, _, _, _, _)
ProcessMatches(acc, i, matches, active, res) ==
  IF matches = <<>> THEN acc
  ELSE ProcessMatches(ProcessMatch(acc, i, matches[1], active, res),
                      i, Tail(matches), active, res)

\* The outer loop from line i (0-based) to the last line.
RECURSIVE ProcessLines(_, _, _, _, _)
ProcessLines(acc, i, lines, active, res) ==
  IF i >= Len(lines) THEN acc
  ELSE ProcessLines(ProcessMatches(acc, i, MatchAllOf[lines[i + 1]], active, res),
                    i + 1, lines, active, res)

\* A scan that hides the status bar item before it looks for the cursor.
ScanResultHidingFirst(lines, active, res, status) ==
  ProcessLines([decorations |-> <<>>,
                status |-> [text |-> status.text, visible |-> FALSE],
                hung |-> FALSE],
               0, lines, active, res)

\* Both loops of a scan that finds the status bar item as `status`: the
\* decorations to set, the status bar item as left, and whether the scan
\* got to its end.
ScanResult(lines, active, res, status) ==
  ProcessLines([decorations |-> <<>>, status |-> status, hung |-> FALSE],
               0, lines, active, res)

(***************************************************************************)
(* provideHover and provideCompletionItems, as functions of what they read *)
(***************************************************************************)
\* A provider that takes the token the position is on.
HoverResourceAtColumn(lines, position, res) ==
  LET matches == MatchAllOf[lines[position.line + 1]]
      hit == {k \in DOMAIN matches :
                /\ matches[k].index <= position.character
                /\ position.character < matches[k].index + matches[k].length}
  IN IF hit = {} THEN Undefined
     ELSE FindByIdString(res, matches[CHOOSE k \in hit : TRUE].group)

\* The resource provideHover builds its payload from: that of the first
\* match on the line, or Undefined.
HoverResource(lines, position, res) ==
  LET match == MatchOf[lines[position.line + 1]]
  IN IF match = Undefined THEN Undefined
     ELSE FindByIdString(res, match.group)

HoverHangs(lines, position, res) ==
  LET resource == HoverResource(lines, position, res)
  IN resource # Undefined /\ Diverges(resource, res)

\* The Hover returned: two code blocks with a line break between them.
HoverResult(lines, position, res) ==
  LET resource == HoverResource(lines, position, res)
  IN IF resource = Undefined THEN Undefined
     ELSE [blocks |-> <<[language |-> "typescript",
                         code |-> getResourcePath(resource, res)],
                        [language |-> "css", code |-> resource.code]>>]

\* substr(0, position.character)
LinePrefix(lines, position) ==
  SubSeq(lines[position.line + 1], 1, position.character)

\* String.prototype.endsWith
EndsWith(text, suffix) ==
  /\ Len(text) >= Len(suffix)
  /\ SubSeq(text, Len(text) - Len(suffix) + 1, Len(text)) = suffix

\* The sort key: resource.name.toLowerCase(). The names of the model are
\* single capital letters.
ToLowerCase(name) ==
  CASE name = "A" -> "a" [] name = "B" -> "b" [] name = "C" -> "c"
    [] name = "D" -> "d" [] name = "E" -> "e" [] name = "F" -> "f"
    [] OTHER -> name

CompletionItem(resource, res) ==
  [label |-> Str(ToStringChars(resource.id)) \o ": " \o getResourcePath(resource, res),
   detail |-> getResourcePath(resource, res),
   insertText |-> Str(ToStringChars(resource.id)),
   sortText |-> ToLowerCase(resource.name)]

CompletionHangs(lines, position, res) ==
  /\ EndsWith(LinePrefix(lines, position), Literal)
  /\ \E i \in DOMAIN res : Diverges(res[i], res)

\* A provider that answers wherever "getRes(" stands before the cursor.
CompletionResultIncludes(lines, position, res) ==
  IF ~\E i \in 1..position.character :
        /\ i + Len(Literal) - 1 <= position.character
        /\ SubSeq(lines[position.line + 1], i, i + Len(Literal) - 1) = Literal
  THEN Undefined
  ELSE [items |-> [i \in DOMAIN res |-> CompletionItem(res[i], res)]]

CompletionResult(lines, position, res) ==
  IF ~EndsWith(LinePrefix(lines, position), Literal) THEN Undefined
  ELSE [items |-> [i \in DOMAIN res |-> CompletionItem(res[i], res)]]

(***************************************************************************)
(* Positions                                                               *)
(***************************************************************************)
\* The positions of a document: every line, every offset up to its end.
Positions(lines) ==
  UNION {{[line |-> l - 1, character |-> c] : c \in 0..Len(lines[l])} :
           l \in DOMAIN lines}

\* The offsets of the longest line of the documents.
AllColumns == 0..19
\* The start of a line: where an edit leaves the cursor, and where the
\* cursor of the one-document specification stays.
LineStart == {0}
\* The offset right after "getRes(" at the start of a line: where the
\* completion provider answers.
AfterLiteral == {Len(Literal)}
\* The start of a line and the offset right after a one-digit id at the
\* start of a line: off the id and on it.
OffAndOnId == {0, Len(Literal) + 1}

(***************************************************************************)
(* State.                                                                  *)
(***************************************************************************)
VARIABLES
  activated,      \* activate() has run: the handlers are registered
  resources,      \* let resources: the stored snapshot
  calls,          \* the calls of fetchResources in flight, oldest first
  lastFetched,    \* what the last toArray() that resolved delivered
  returned,       \* what the caller of the last call that returned saw
  doc,            \* the lines of the active editor's document
  cursor,         \* editor.selection.active
  decorations,    \* what the editor shows for decorationType
  statusBarItem,  \* the text and visibility of the status bar item
  lastScan,       \* what the last scan that returned had read
  query,          \* the last hover or completion request and its answer
  hung,           \* a handler is in a loop it never leaves
  forest,         \* the result of buildResourceTree on the snapshot
  walk            \* a call of getResourcePath, followed step by step

vars ==
  <<activated, resources, calls, lastFetched, returned, doc, cursor,
    decorations, statusBarItem, lastScan, query, hung, forest, walk>>

storeVars == <<resources, calls, lastFetched, returned>>
editorVars == <<doc, cursor, decorations, statusBarItem, lastScan>>
functionVars == <<forest, walk>>

Pending == [status |-> "pending", data |-> <<>>]
Failed == [status |-> "failed", data |-> <<>>]
Ok(data) == [status |-> "ok", data |-> data]

Init ==
  /\ activated = FALSE
  /\ resources = <<>>
  /\ calls = <<>>
  /\ lastFetched = [data |-> <<>>, overtook |-> FALSE]
  /\ returned = Undefined
  /\ doc = EmptyDocument
  /\ cursor = [line |-> 0, character |-> 0]
  /\ decorations = <<>>
  /\ statusBarItem = Undefined
  /\ lastScan = Undefined
  /\ query = Undefined
  /\ hung = FALSE
  /\ forest = Undefined
  /\ walk = [pc |-> "idle"]

(***************************************************************************)
(* fetchResources and the three places that call it                        *)
(***************************************************************************)
\* A command that awaits the fetch before it shows its notification.
NewCallAwaited(command, notified) ==
  [command |-> command, pc |-> "connect", result |-> Pending,
   notified |-> FALSE, errorShown |-> FALSE]

\* fetchResources() up to its first await: the client is made and
\* connect() is under way.
NewCall(command, notified) ==
  [command |-> command, pc |-> "connect", result |-> Pending,
   notified |-> notified, errorShown |-> FALSE]

Replace(seq, i, x) == [seq EXCEPT ![i] = x]
Remove(seq, i) == SubSeq(seq, 1, i - 1) \o SubSeq(seq, i + 1, Len(seq))

\* activate(): fetchResources() is called and not awaited; the decoration
\* type and the status bar item are created; the handlers are registered.
Activate ==
  /\ ~hung /\ ~activated
  /\ activated' = TRUE
  /\ calls' = Append(calls, NewCall("activate", FALSE))
  /\ statusBarItem' = [text |-> "", visible |-> FALSE]
  /\ UNCHANGED <<resources, lastFetched, returned, doc, cursor, decorations,
                 lastScan, query, hung, functionVars>>

\* extension.refreshResources: fetchResources() is called and not awaited,
\* and the notification is shown at once.
RefreshResources(limit) ==
  /\ ~hung /\ activated /\ Len(calls) < limit
  /\ calls' = Append(calls, NewCall("refreshResources", TRUE))
  /\ UNCHANGED <<activated, resources, lastFetched, returned, editorVars,
                 query, hung, functionVars>>

\* extension.refreshResourcesAndCompletion up to its await.
RefreshResourcesAndCompletion(limit) ==
  /\ ~hung /\ activated /\ Len(calls) < limit
  /\ calls' = Append(calls, NewCall("refreshResourcesAndCompletion", FALSE))
  /\ UNCHANGED <<activated, resources, lastFetched, returned, editorVars,
                 query, hung, functionVars>>

\* await client.connect() resolves: find().toArray() is under way.
ConnectResolves ==
  /\ ~hung
  /\ \E i \in DOMAIN calls :
       /\ calls[i].pc = "connect"
       /\ calls' = Replace(calls, i, [calls[i] EXCEPT !.pc = "find"])
  /\ UNCHANGED <<activated, resources, lastFetched, returned, editorVars,
                 query, hung, functionVars>>

\* A catch block that empties the snapshot.
SnapshotAfterFailureCleared(old) == <<>>

\* The snapshot after the catch block has run: the assignment of line 21
\* was not reached.
SnapshotAfterFailure(old) == old

\* A replacement that appends what was fetched to what was stored.
SnapshotAfterSuccessAppended(old, data) == old \o data

\* A replacement that keeps a snapshot once there is one.
SnapshotAfterSuccessFirstWins(old, data) == IF old = <<>> THEN data ELSE old

\* resources = await collection.find().toArray()
SnapshotAfterSuccess(old, data) == data

\* The catch block: the error is logged and shown, and the function goes on
\* to its finally block.
Caught(call) ==
  [call EXCEPT !.pc = "close", !.result = Failed, !.errorShown = TRUE]

\* await client.connect() rejects.
ConnectRejects ==
  /\ ~hung
  /\ \E i \in DOMAIN calls :
       /\ calls[i].pc = "connect"
       /\ calls' = Replace(calls, i, Caught(calls[i]))
  /\ resources' = SnapshotAfterFailure(resources)
  /\ UNCHANGED <<activated, lastFetched, returned, editorVars, query, hung,
                 functionVars>>

\* await collection.find().toArray() rejects.
FindRejects ==
  /\ ~hung
  /\ \E i \in DOMAIN calls :
       /\ calls[i].pc = "find"
       /\ calls' = Replace(calls, i, Caught(calls[i]))
  /\ resources' = SnapshotAfterFailure(resources)
  /\ UNCHANGED <<activated, lastFetched, returned, editorVars, query, hung,
                 functionVars>>

\* A fetch that takes the decorations of the old snapshot off the editor.
DecorationsAfterFetchCleared(shown) == <<>>

\* What the editor shows once fetchResources has assigned: the function
\* calls neither handleSelectionChange nor setDecorations.
DecorationsAfterFetch(shown) == shown

\* await collection.find().toArray() resolves with data, which is assigned.
\* lastFetched.overtook: a call started later had its data assigned before.
FindResolves ==
  /\ ~hung
  /\ \E i \in DOMAIN calls, data \in DataSets :
       /\ calls[i].pc = "find"
       /\ calls' = Replace(calls, i,
                     [calls[i] EXCEPT !.pc = "close", !.result = Ok(data)])
       /\ resources' = SnapshotAfterSuccess(resources, data)
       /\ lastFetched' =
            [data |-> data,
             overtook |-> \E j \in DOMAIN calls :
                            /\ j > i
                            /\ calls[j].result.status = "ok"
                            /\ calls[j].result.data # data]
  /\ decorations' = DecorationsAfterFetch(decorations)
  /\ UNCHANGED <<activated, returned, doc, cursor, statusBarItem, lastScan,
                 query, hung, functionVars>>

\* How the promise of fetchResources settles: the function has no return
\* statement and lets no error out of its try block.
Outcome(result) == [state |-> "fulfilled", value |-> Undefined]

\* Whether the command's notification has been shown once its handler is
\* through: refreshResourcesAndCompletion shows it after its await.
NotifiedAfterReturn(call) ==
  call.notified \/ call.command = "refreshResourcesAndCompletion"

\* await client.close() resolves (the model lets close() always resolve):
\* fetchResources returns, and a handler that awaited it goes on. With
\* `observed`, what the caller saw is kept in `returned`.
CloseResolves(observed) ==
  /\ ~hung
  /\ \E i \in DOMAIN calls :
       /\ calls[i].pc = "close"
       /\ calls' = Remove(calls, i)
       /\ returned' =
            IF observed
            THEN [command |-> calls[i].command,
                  failed |-> calls[i].result.status = "failed",
                  outcome |-> Outcome(calls[i].result),
                  notified |-> NotifiedAfterReturn(calls[i]),
                  errorShown |-> calls[i].errorShown]
            ELSE returned
  /\ UNCHANGED <<activated, resources, lastFetched, editorVars, query, hung,
                 functionVars>>

(***************************************************************************)
(* The editor's events                                                     *)
(***************************************************************************)
\* A handler that adds the decorations of a scan to those shown.
SetDecorationsAppending(shown, pushed) == shown \o pushed

\* editor.setDecorations(decorationType, decorations): what was shown for
\* the decoration type is replaced by the array the scan filled from empty.
SetDecorations(shown, pushed) == pushed

\* A call of fetchResources has not got its answer yet.
FetchPending == \E i \in DOMAIN calls : calls[i].result = Pending

\* A call of fetchResources has gone through its catch block.
FailureSeen ==
  \/ returned # Undefined /\ returned.failed
  \/ \E i \in DOMAIN calls : calls[i].result = Failed

\* handleSelectionChange for an editor of the given language that holds
\* `lines` with its cursor at `active`. lastScan keeps what the scan read,
\* and whether a fetch was pending or had failed when it ran.
HandleSelectionChange(languageId, lines, active) ==
  IF languageId # "javascript"
  THEN UNCHANGED <<decorations, statusBarItem, lastScan, hung>>
  ELSE \E scan \in {ScanResult(lines, active, resources, statusBarItem)} :
         /\ hung' = scan.hung
         /\ statusBarItem' = scan.status
         /\ IF scan.hung
            THEN UNCHANGED <<decorations, lastScan>>
            ELSE /\ decorations' = SetDecorations(decorations, scan.decorations)
                 /\ lastScan' = [lines |-> lines, active |-> active,
                                 snapshot |-> resources,
                                 inFlight |-> FetchPending,
                                 afterFailure |-> FailureSeen]

\* onDidChangeTextEditorSelection in the JavaScript editor: the cursor is
\* put somewhere in the document (or stays, when only the anchor moves).
ChangeSelection(columns) ==
  /\ ~hung /\ activated
  /\ \E position \in Positions(doc) :
       /\ position.character \in columns
       /\ cursor' = position
       /\ HandleSelectionChange("javascript", doc, position)
  /\ UNCHANGED <<activated, storeVars, doc, query, functionVars>>

\* onDidChangeTextDocument for the active editor's document: an edit leaves
\* other lines, and the cursor where the edit put it. An answer given for a
\* position of the old text is dropped.
ChangeTextDocument(buffers, columns) ==
  /\ ~hung /\ activated
  /\ \E lines \in buffers :
       /\ lines # doc
       /\ doc' = lines
       /\ \E position \in Positions(lines) :
            /\ position.character \in columns
            /\ cursor' = position
            /\ HandleSelectionChange("javascript", lines, position)
  /\ query' = Undefined
  /\ UNCHANGED <<activated, storeVars, functionVars>>

\* onDidChangeTextEditorSelection in an editor of another language: the
\* handler returns at once (line 158).
ChangeSelectionElsewhere ==
  /\ ~hung /\ activated
  /\ HandleSelectionChange("plaintext", EmptyDocument, [line |-> 0, character |-> 0])
  /\ UNCHANGED <<activated, storeVars, doc, cursor, query, functionVars>>

\* provideHover(document, position)
ProvideHover(columns) ==
  /\ ~hung /\ activated
  /\ \E position \in Positions(doc) :
       /\ position.character \in columns
       /\ IF HoverHangs(doc, position, resources)
          THEN hung' = TRUE /\ UNCHANGED query
          ELSE /\ hung' = hung
               /\ query' = [kind |-> "hover", lines |-> doc,
                            position |-> position, snapshot |-> resources,
                            inFlight |-> FetchPending,
                            result |-> HoverResult(doc, position, resources)]
  /\ UNCHANGED <<activated, storeVars, editorVars, functionVars>>

\* provideCompletionItems(document, position)
ProvideCompletionItems(columns) ==
  /\ ~hung /\ activated
  /\ \E position \in Positions(doc) :
       /\ position.character \in columns
       /\ IF CompletionHangs(doc, position, resources)
          THEN hung' = TRUE /\ UNCHANGED query
          ELSE /\ hung' = hung
               /\ query' = [kind |-> "completion", lines |-> doc,
                            position |-> position, snapshot |-> resources,
                            inFlight |-> FetchPending,
                            result |-> CompletionResult(doc, position, resources)]
  /\ UNCHANGED <<activated, storeVars, editorVars, functionVars>>

(***************************************************************************)
(* buildResourceTree and getResourcePath applied to generated snapshots    *)
(***************************************************************************)
\* The records a generated snapshot may hold: a pid is missing, or an id
\* of the range (0 among them), or the id past the range.
Records ==
  {Resource(i, p, NameOf(i), "") : i \in 0..MaxId, p \in {Null} \cup 0..(MaxId + 1)}

\* The snapshots: up to MaxRecords records, no id twice.
Snapshots ==
  {s \in UNION {[1..n -> Records] : n \in 0..MaxRecords} :
     \A i, j \in DOMAIN s : s[i].id = s[j].id => i = j}

InitFunctions ==
  /\ activated = FALSE
  /\ resources \in Snapshots
  /\ calls = <<>>
  /\ lastFetched = [data |-> <<>>, overtook |-> FALSE]
  /\ returned = Undefined
  /\ doc = EmptyDocument
  /\ cursor = [line |-> 0, character |-> 0]
  /\ decorations = <<>>
  /\ statusBarItem = Undefined
  /\ lastScan = Undefined
  /\ query = Undefined
  /\ hung = FALSE
  /\ forest = Undefined
  /\ walk = [pc |-> "idle"]

\* buildResourceTree(resources)
BuildTree ==
  /\ forest = Undefined
  /\ forest' = buildResourceTree(resources)
  /\ UNCHANGED <<activated, storeVars, editorVars, query, hung, walk>>

\* getResourcePath(resource, resources) up to its loop. walk.visited lists
\* the ids of the records the walk has stood on.
WalkStart ==
  /\ walk.pc = "idle"
  /\ \E i \in DOMAIN resources :
       LET w == WalkInit(resources[i], resources)
       IN walk' = [pc |-> "loop", resource |-> resources[i], path |-> w.path,
                   parent |-> w.parent, visited |-> <<resources[i].id>>]
  /\ UNCHANGED <<activated, storeVars, editorVars, query, hung, forest>>

\* One iteration of the loop.
WalkStep ==
  /\ walk.pc = "loop" /\ walk.parent # Undefined /\ Len(walk.path) < MaxPath
  /\ LET w == WalkBody([path |-> walk.path, parent |-> walk.parent], resources)
     IN walk' = [walk EXCEPT !.path = w.path, !.parent = w.parent,
                             !.visited = Append(walk.visited, walk.parent.id)]
  /\ UNCHANGED <<activated, storeVars, editorVars, query, hung, forest>>

\* The loop is left: return path.join("-")
WalkReturn ==
  /\ walk.pc = "loop" /\ walk.parent = Undefined
  /\ walk' = [pc |-> "done", resource |-> walk.resource, path |-> walk.path,
              parent |-> walk.parent, visited |-> walk.visited,
              result |-> Join(walk.path, "-")]
  /\ UNCHANGED <<activated, storeVars, editorVars, query, hung, forest>>

(***************************************************************************)
(* Specifications                                                          *)
(***************************************************************************)
\* The whole extension on one short document: the scanner and the two
\* providers, and refreshes of which MaxInFlightEditor are in flight at a
\* time.
Next ==
  \/ Activate
  \/ RefreshResources(MaxInFlightEditor)
  \/ RefreshResourcesAndCompletion(MaxInFlightEditor)
  \/ ConnectResolves
  \/ ConnectRejects
  \/ FindResolves
  \/ FindRejects
  \/ CloseResolves(FALSE)
  \/ ChangeSelection(LineStart)
  \/ ChangeTextDocument(StoreBuffers, LineStart)
  \/ ProvideHover(LineStart)
  \/ ProvideCompletionItems(AfterLiteral)

Spec == Init /\ [][Next]_vars

\* The store alone: overlapping refreshes, and what each caller saw.
NextStore ==
  \/ Activate
  \/ RefreshResources(MaxInFlight)
  \/ RefreshResourcesAndCompletion(MaxInFlight)
  \/ ConnectResolves
  \/ ConnectRejects
  \/ FindResolves
  \/ FindRejects
  \/ CloseResolves(TRUE)

SpecStore == Init /\ [][NextStore]_vars

\* The extension at rest after activation: no call in flight, the snapshot
\* empty or as one fetch left it, nothing scanned yet.
InitSettled ==
  /\ activated = TRUE
  /\ resources \in {<<>>} \cup DataSets
  /\ calls = <<>>
  /\ lastFetched = [data |-> resources, overtook |-> FALSE]
  /\ returned = Undefined
  /\ doc = EmptyDocument
  /\ cursor = [line |-> 0, character |-> 0]
  /\ decorations = <<>>
  /\ statusBarItem = [text |-> "", visible |-> FALSE]
  /\ lastScan = Undefined
  /\ query = Undefined
  /\ hung = FALSE
  /\ forest = Undefined
  /\ walk = [pc |-> "idle"]

\* The scanner alone: every document, every cursor position, every snapshot.
NextScan ==
  \/ ChangeSelection(AllColumns)
  \/ ChangeTextDocument(Buffers, LineStart)
  \/ ChangeSelectionElsewhere

SpecScan == InitSettled /\ [][NextScan]_vars

\* The providers alone: hover and completion at every position of every
\* document, on every snapshot; the cursor stays at a line start.
NextQuery ==
  \/ ChangeTextDocument(Buffers, LineStart)
  \/ ProvideHover(AllColumns)
  \/ ProvideCompletionItems(AllColumns)

SpecQuery == InitSettled /\ [][NextQuery]_vars

\* The status bar item across replacements of the snapshot: refreshes by
\* the first command, and the cursor moving on and off the id of the one
\* short document.
NextStatus ==
  \/ Activate
  \/ RefreshResources(MaxInFlightEditor)
  \/ ConnectResolves
  \/ ConnectRejects
  \/ FindResolves
  \/ FindRejects
  \/ CloseResolves(FALSE)
  \/ ChangeSelection(OffAndOnId)
  \/ ChangeTextDocument(StoreBuffers, LineStart)

SpecStatus == Init /\ [][NextStatus]_vars

\* The two pure functions on every generated snapshot.
NextFunctions ==
  \/ BuildTree
  \/ WalkStart
  \/ WalkStep
  \/ WalkReturn

SpecFunctions == InitFunctions /\ [][NextFunctions]_vars

(***************************************************************************)
(* What the claims speak of, said without the code's loops                 *)
(***************************************************************************)
IdsOf(snapshot) == {snapshot[i].id : i \in DOMAIN snapshot}

\* The record a record's pid names, in a snapshot of unique ids.
ParentIn(r, snapshot) ==
  IF r.pid \in IdsOf(snapshot)
  THEN CHOOSE q \in Range(snapshot) : q.id = r.pid
  ELSE Undefined

\* The n-th ancestor of r: r itself for 0, Undefined past the top.
RECURSIVE Ancestor(_, _, _)
Ancestor(r, n, snapshot) ==
  IF n = 0 THEN r
  ELSE LET below == Ancestor(r, n - 1, snapshot)
       IN IF below = Undefined THEN Undefined ELSE ParentIn(below, snapshot)

\* No record is its own ancestor.
Acyclic(snapshot) ==
  \A r \in Range(snapshot) :
    \A n \in 1..Len(snapshot) : Ancestor(r, n, snapshot) # r

\* r's parent chain ends: some ancestor has no parent in the snapshot.
ChainEnds(r, snapshot) ==
  \E k \in 0..Len(snapshot) : Ancestor(r, k + 1, snapshot) = Undefined

\* The length of r's resolvable parent chain: the number of its ancestors.
ChainLength(r, snapshot) ==
  CHOOSE k \in 0..Len(snapshot) :
    /\ Ancestor(r, k + 1, snapshot) = Undefined
    /\ Ancestor(r, k, snapshot) # Undefined

\* The names from the top of r's chain down to r.
ChainNames(r, snapshot) ==
  LET k == ChainLength(r, snapshot)
  IN [i \in 1..(k + 1) |-> Ancestor(r, k + 1 - i, snapshot).name]

NoDuplicates(seq) == \A i, j \in DOMAIN seq : seq[i] = seq[j] => i = j

\* The ids of the records whose pid is `id`, in the order of the snapshot.
IdsWithPid(snapshot, id) ==
  LET children == SelectSeq(snapshot, LAMBDA r : r.pid = id)
  IN [i \in DOMAIN children |-> children[i].id]

\* The ids of the nodes of a forest: its roots and all below them.
RECURSIVE Below(_, _, _)
Below(tree, ids, fuel) ==
  IF fuel = 0 THEN ids
  ELSE Below(tree,
             ids \cup UNION {Range(tree.nodes[id].children) : id \in ids},
             fuel - 1)
NodesOf(tree) == Below(tree, Range(tree.roots), Cardinality(DOMAIN tree.nodes))

\* The text of a line before a position ends with the opening of a token.
PrefixEndsWithOpening(lines, position) ==
  /\ position.character >= 7
  /\ SubSeq(lines[position.line + 1], position.character - 6, position.character) =
       <<"g", "e", "t", "R", "e", "s", "(">>

\* The names of the records, lowercased.
Lowercased ==
  [n \in {"A", "B", "C", "D", "E", "F"} |->
     CASE n = "A" -> "a" [] n = "B" -> "b" [] n = "C" -> "c"
       [] n = "D" -> "d" [] n = "E" -> "e" [] n = "F" -> "f"]

\* The token occurrences of a line, by the grammar: getRes( at 0-based
\* index i, then n >= 1 digits, then the closing parenthesis.
Occurrences(text) ==
  {[index |-> ij[1], digits |-> SubSeq(text, ij[1] + 8, ij[1] + 7 + ij[2])] :
     ij \in {in \in (0..Len(text)) \X (1..Len(text)) :
               /\ in[1] + 7 + in[2] + 1 <= Len(text)
               /\ SubSeq(text, in[1] + 1, in[1] + 7) =
                    <<"g", "e", "t", "R", "e", "s", "(">>
               /\ \A q \in (in[1] + 8)..(in[1] + 7 + in[2]) : IsDigit(text[q])
               /\ text[in[1] + 7 + in[2] + 1] = ")"}}

\* The token occurrences of a document, each with its 0-based line.
DocOccurrences(lines) ==
  UNION {{[line |-> l - 1, index |-> o.index, digits |-> o.digits] :
            o \in Occurrences(lines[l])} : l \in DOMAIN lines}

\* The span of the digits of an occurrence.
SpanStart(o) == o.index + 7
SpanEnd(o) == o.index + 7 + Len(o.digits)

\* The id of an occurrence resolves: a record's id, written out, is its digits.
Resolves(o, snapshot) ==
  \E r \in Range(snapshot) : ToStringChars(r.id) = o.digits
RecordFor(o, snapshot) ==
  CHOOSE r \in Range(snapshot) : ToStringChars(r.id) = o.digits

\* The path of a record whose chain ends: its chain's names joined by "-".
PathOf(r, snapshot) == Join(ChainNames(r, snapshot), "-")

\* The cursor is on the occurrence's line, within its digit span, ends included.
Overlaps(o, active) ==
  /\ active.line = o.line
  /\ SpanStart(o) <= active.character
  /\ active.character <= SpanEnd(o)

\* One annotation for each occurrence that resolves and is not overlapped.
ExpectedAnnotations(lines, active, snapshot) ==
  {[line |-> o.line, character |-> SpanEnd(o),
    contentText |-> PathOf(RecordFor(o, snapshot), snapshot)] :
     o \in {x \in DocOccurrences(lines) :
              Resolves(x, snapshot) /\ ~Overlaps(x, active)}}

\* The matches of a scan for which the code's isOnId is true.
MatchesOnId(lines, active) ==
  {lk \in UNION {{<<l, k>> : k \in DOMAIN MatchAllOf[lines[l]]} : l \in DOMAIN lines} :
     IsOnId(active, lk[1] - 1, IdStart(MatchAllOf[lines[lk[1]]][lk[2]]),
            IdEnd(MatchAllOf[lines[lk[1]]][lk[2]]))}

\* The suggestion for a record of a snapshot.
SuggestionFor(r, snapshot) ==
  [label |-> Str(ToStringChars(r.id)) \o ": " \o PathOf(r, snapshot),
   detail |-> PathOf(r, snapshot),
   insertText |-> Str(ToStringChars(r.id)),
   sortText |-> Lowercased[r.name]]

\* The position is on the occurrence: from its first character to its
\* closing parenthesis.
OnToken(o, position) ==
  /\ position.line = o.line
  /\ o.index <= position.character
  /\ position.character <= SpanEnd(o)

\* The status that shows a record of the snapshot whose chain ends.
StatusOfRecord(status, snapshot) ==
  \E r \in Range(snapshot) :
    /\ ChainEnds(r, snapshot)
    /\ status = [text |-> Str(ToStringChars(r.id)) \o ":" \o PathOf(r, snapshot),
                 visible |-> TRUE]

\* The snapshots a fetch can have left: the empty one of the start, or all
\* the records of one fetch.
WholeSnapshots == {<<>>} \cup DataSets

(***************************************************************************)
(* C1. When the fetch of a refresh fails, the stored snapshot after the    *)
(* failure is the snapshot before it; so a scan that follows resolves ids  *)
(* from the last successfully fetched snapshot and emits the annotations   *)
(* of that snapshot.                                                       *)
(***************************************************************************)
FailedFetchKeepsSnapshot ==
  [][/\ (\E i \in DOMAIN calls :
           /\ Len(calls') = Len(calls)
           /\ calls[i].result = Pending
           /\ calls'[i].result = Failed) => resources' = resources
     /\ (lastScan' # lastScan /\ lastScan'.afterFailure) =>
          /\ lastScan'.snapshot = lastFetched.data
          /\ Range(decorations') =
               ExpectedAnnotations(doc', cursor', lastFetched.data)]_vars

\* A scan that ran after a fetch had failed, on a snapshot an earlier fetch
\* had stored, and that annotated an occurrence from it.
FailedFetchKeepsSnapshotWitness ==
  /\ lastScan # Undefined
  /\ lastScan.afterFailure
  /\ lastScan.snapshot # <<>>
  /\ lastScan.snapshot = lastFetched.data
  /\ decorations # <<>>

(***************************************************************************)
(* C2. resolvePath terminates on every snapshot, cyclic ones included: the *)
(* parent walk never goes on from a record it has stood on before, so no   *)
(* id is visited twice and the path stays within one name per record.      *)
(* The code's loop has no such stop: on records 1->2, 2->1 it goes round.  *)
(***************************************************************************)
ResolvePathStopsAtRevisit ==
  walk.pc # "idle" =>
    /\ NoDuplicates(walk.visited)
    /\ Len(walk.path) <= Len(resources)

(***************************************************************************)
(* C3. With unique ids, a record is a root of the forest buildForest       *)
(* returns if and only if its pid is absent or equals no id of the         *)
(* snapshot; a record whose pid names no record is a root, never dropped.  *)
(* The code keeps as roots only the records whose pid is falsy.            *)
(***************************************************************************)
RootIffNoParentInSnapshot ==
  forest # Undefined =>
    \A r \in Range(resources) :
      (r.id \in Range(forest.roots)) <=>
        (r.pid = Null \/ r.pid \notin IdsOf(resources))

(***************************************************************************)
(* C4. In an acyclic snapshot, for a resource r whose resolvable parent    *)
(* chain has length k, resolvePath(r) yields exactly k+1 names: those of   *)
(* the k ancestors from the root down, then r.name; the walk stops at the  *)
(* first record whose pid is absent or matches no id. While the walk runs, *)
(* its path is the tail of that sequence.                                   *)
(***************************************************************************)
ResolvePathIsChain ==
  (walk.pc # "idle" /\ Acyclic(resources)) =>
    LET names == ChainNames(walk.resource, resources)
        k == ChainLength(walk.resource, resources)
        n == Len(walk.path)
    IN /\ n <= k + 1
       /\ walk.path = SubSeq(names, k + 2 - n, k + 1)
       /\ walk.path[n] = walk.resource.name
       /\ walk.pc = "done" =>
            /\ n = k + 1
            /\ walk.result = Join(names, "-")
       /\ (walk.pc = "loop" /\ walk.parent = Undefined) => n = k + 1

\* A walk that has returned three names: the resource, its parent and its
\* grandparent, which has no parent in the snapshot.
ResolvePathIsChainWitness ==
  /\ walk.pc = "done"
  /\ Acyclic(resources)
  /\ ChainLength(walk.resource, resources) = 2
  /\ Len(walk.path) = 3
  /\ walk.path[1] # walk.path[3]

(***************************************************************************)
(* C5. The annotations a scan of (buffer, cursor, snapshot) emits are      *)
(* exactly: one for each token occurrence whose id resolves and which the  *)
(* cursor does not overlap (same line, idStart <= column <= idEnd), placed *)
(* at idEnd with the resolved path as text; an overlapped occurrence gets  *)
(* none.                                                                   *)
(***************************************************************************)
ScanEmitsExactAnnotations ==
  lastScan # Undefined =>
    LET expected ==
          ExpectedAnnotations(lastScan.lines, lastScan.active, lastScan.snapshot)
    IN /\ Range(decorations) = expected
       /\ Len(decorations) = Cardinality(expected)

\* A scan with the cursor right after the last digit of a resolved id (the
\* inclusive end), which annotates another occurrence and not that one.
ScanEmitsExactAnnotationsWitness ==
  /\ lastScan # Undefined
  /\ decorations # <<>>
  /\ \E o \in DocOccurrences(lastScan.lines) :
       /\ Resolves(o, lastScan.snapshot)
       /\ lastScan.active.line = o.line
       /\ lastScan.active.character = SpanEnd(o)
       /\ \A d \in Range(decorations) :
            d.line # o.line \/ d.character # SpanEnd(o)

(***************************************************************************)
(* C6. In every scan at most one token occurrence has cursorOverlap true,  *)
(* also for adjacent tokens on one line with the inclusive end bound; and  *)
(* when a resolved occurrence is overlapped, the status after the scan is  *)
(* exactly "<id>:<path>" of that occurrence, shown.                        *)
(***************************************************************************)
OneOverlapAndItsStatus ==
  (lastScan # Undefined /\ ~hung) =>
    /\ Cardinality(MatchesOnId(lastScan.lines, lastScan.active)) <= 1
    /\ \A o \in DocOccurrences(lastScan.lines) :
         (Resolves(o, lastScan.snapshot) /\ Overlaps(o, lastScan.active)) =>
           statusBarItem =
             [text |-> Str(o.digits) \o ":"
                         \o PathOf(RecordFor(o, lastScan.snapshot), lastScan.snapshot),
              visible |-> TRUE]

\* The cursor at the inclusive end of a resolved id that the next token
\* follows at once, the next token resolved too.
OneOverlapAndItsStatusWitness ==
  /\ lastScan # Undefined /\ ~hung
  /\ \E o, next \in DocOccurrences(lastScan.lines) :
       /\ Resolves(o, lastScan.snapshot) /\ Resolves(next, lastScan.snapshot)
       /\ next.line = o.line /\ next.index = SpanEnd(o) + 1
       /\ lastScan.active.line = o.line
       /\ lastScan.active.character = SpanEnd(o)
       /\ statusBarItem.visible
       /\ statusBarItem.text = "2:C-D"

(***************************************************************************)
(* C7. A token occurrence whose id is absent from the snapshot is skipped: *)
(* the scan emits no annotation for it and the status shows it never,      *)
(* a hover on it yields no payload, and the other occurrences of the scan  *)
(* are still processed.                                                    *)
(***************************************************************************)
AbsentIdIsSkipped ==
  /\ lastScan # Undefined =>
       /\ \A o \in DocOccurrences(lastScan.lines) :
            ~Resolves(o, lastScan.snapshot) =>
              \A d \in Range(decorations) :
                d.line # o.line \/ d.character # SpanEnd(o)
       /\ Range(decorations) =
            ExpectedAnnotations(lastScan.lines, lastScan.active, lastScan.snapshot)
  /\ statusBarItem.visible => StatusOfRecord(statusBarItem, resources)
  /\ (query # Undefined /\ query.kind = "hover") =>
       \A o \in DocOccurrences(query.lines) :
         (~Resolves(o, query.snapshot) /\ OnToken(o, query.position)) =>
           query.result = Undefined

(***************************************************************************)
(* C8. When refresh calls overlap, once all have settled the stored        *)
(* snapshot is what the fetch that completed successfully last delivered,  *)
(* whatever the order the calls were started in.                           *)
(***************************************************************************)
LastSuccessfulFetchWins ==
  calls = <<>> => resources = lastFetched.data

\* All calls have settled, and the fetch that delivered last belonged to a
\* call started before another whose other data had been stored already.
LastSuccessfulFetchWinsWitness ==
  /\ calls = <<>>
  /\ lastFetched.overtook
  /\ resources # <<>>

(***************************************************************************)
(* C9. The stored snapshot is always the empty sequence of the start or    *)
(* the whole record set of one fetch; a scan, hover or completion that     *)
(* runs while a refresh is in flight reads such a snapshot in full.        *)
(***************************************************************************)
SnapshotIsNeverPartial ==
  /\ resources \in WholeSnapshots
  /\ lastScan # Undefined =>
       /\ lastScan.snapshot \in WholeSnapshots
       /\ Range(decorations) =
            ExpectedAnnotations(lastScan.lines, lastScan.active, lastScan.snapshot)
  /\ query # Undefined =>
       /\ query.snapshot \in WholeSnapshots
       /\ (query.kind = "completion" /\ query.result # Undefined) =>
            /\ Len(query.result.items) = Len(query.snapshot)
            /\ \A i \in DOMAIN query.snapshot :
                 query.result.items[i].insertText =
                   Str(ToStringChars(query.snapshot[i].id))

\* A completion answered from a stored record set while a fetch was
\* pending, after a scan that ran with a fetch pending too.
SnapshotIsNeverPartialWitness ==
  /\ query # Undefined /\ query.kind = "completion"
  /\ query.inFlight
  /\ query.result # Undefined
  /\ query.snapshot # <<>>
  /\ lastScan # Undefined /\ lastScan.inFlight
  /\ lastScan.snapshot # <<>>

(***************************************************************************)
(* C10. When the fetch of a refresh fails, the caller of the refresh       *)
(* observes an outcome distinct from the outcome of a successful refresh.  *)
(***************************************************************************)
FailureIsReportedToCaller ==
  (returned # Undefined /\ returned.failed) =>
    \A data \in DataSets : returned.outcome # Outcome(Ok(data))

(***************************************************************************)
(* C11. buildForest is deterministic and order-preserving: the children of *)
(* every node of the returned forest are exactly the records whose pid is  *)
(* the node's id, in the order of the input sequence, and building again   *)
(* from the same input gives the same forest.                              *)
(***************************************************************************)
ChildrenArePidMatchesInOrder ==
  forest # Undefined =>
    /\ \A id \in NodesOf(forest) :
         forest.nodes[id].children = IdsWithPid(resources, id)
    /\ forest = buildResourceTree(resources)

(***************************************************************************)
(* C12. The completion projection returns suggestions only when the text   *)
(* of the line before the cursor ends with getRes( ; then it returns one   *)
(* suggestion per record of the snapshot, none left out, with label        *)
(* "<id>: <path>", detail the path, insert text the id written out and     *)
(* sort key the lowercased name; for any other prefix it returns none.     *)
(***************************************************************************)
CompletionOnePerRecord ==
  (query # Undefined /\ query.kind = "completion") =>
    IF PrefixEndsWithOpening(query.lines, query.position)
    THEN /\ query.result # Undefined
         /\ Len(query.result.items) = Len(query.snapshot)
         /\ \A i \in DOMAIN query.snapshot :
              query.result.items[i] = SuggestionFor(query.snapshot[i], query.snapshot)
    ELSE query.result = Undefined

\* A completion asked for right after the opening of the second token of a
\* line, answered with a suggestion for each of three records.
CompletionOnePerRecordWitness ==
  /\ query # Undefined /\ query.kind = "completion"
  /\ query.position.character > 7
  /\ query.result # Undefined
  /\ Len(query.result.items) = 3
  /\ query.result.items[2].label = "2: C-D"

(***************************************************************************)
(* C13. The annotations a scan applies are computed from scratch and       *)
(* replace those of every earlier scan: after any sequence of document and *)
(* selection changes, what is displayed is what one scan of the buffer,    *)
(* cursor and snapshot of the last scan gives, whatever came before.       *)
(***************************************************************************)
AnnotationsAreOfLastScanOnly ==
  lastScan # Undefined =>
    decorations =
      ScanResult(lastScan.lines, lastScan.active, lastScan.snapshot,
                 Undefined).decorations

\* The status still names id 3, overlapped in a scan of another buffer; the
\* last scan read a buffer without that token and annotated two tokens.
AnnotationsAreOfLastScanOnlyWitness ==
  /\ lastScan # Undefined
  /\ statusBarItem.visible /\ statusBarItem.text = "3:E"
  /\ \A o \in DocOccurrences(lastScan.lines) : o.digits # <<"3">>
  /\ Len(decorations) >= 2

(***************************************************************************)
(* C14. A scan in which the cursor overlaps no resolved token leaves the   *)
(* status display, text and visibility, as it was; the status is never     *)
(* cleared or hidden, so it goes on showing the "<id>:<path>" of the last  *)
(* overlapped token after the cursor has left the id, and across later     *)
(* replacements of the snapshot.                                           *)
(***************************************************************************)
StatusKeptWithoutOverlap ==
  [][activated =>
       /\ (~\E o \in DocOccurrences(doc') :
              Resolves(o, resources) /\ Overlaps(o, cursor')) =>
            statusBarItem' = statusBarItem
       /\ statusBarItem.visible =>
            statusBarItem'.visible /\ statusBarItem'.text # ""
       /\ resources' # resources => statusBarItem' = statusBarItem]_vars

\* The status shows "2:A-B", the path id 2 had in an earlier snapshot; the
\* snapshot has been replaced since, and the last scan, off the id, read
\* the new one, in which id 2 has another path.
StatusKeptWithoutOverlapWitness ==
  /\ statusBarItem # Undefined
  /\ statusBarItem.visible /\ statusBarItem.text = "2:A-B"
  /\ resources = DataB
  /\ lastScan # Undefined
  /\ lastScan.snapshot = DataB
  /\ lastScan.active.character = 0
  /\ decorations # <<>>

(***************************************************************************)
(* C15. The completion of a refresh, successful or failed, triggers no     *)
(* scan: the annotations and the status displayed stay those computed from *)
(* the old snapshot until the next document or selection change, and that  *)
(* next scan is the one that reflects the new snapshot.                    *)
(***************************************************************************)
RefreshTriggersNoScan ==
  [][activated =>
       /\ (calls' # calls \/ resources' # resources) =>
            /\ decorations' = decorations
            /\ statusBarItem' = statusBarItem
            /\ lastScan' = lastScan
       /\ lastScan' # lastScan =>
            /\ lastScan'.snapshot = resources
            /\ Range(decorations') = ExpectedAnnotations(doc', cursor', resources)]_vars

\* Every call has settled and the snapshot has been replaced since the last
\* scan; the editor still shows the annotation of the old snapshot, which is
\* not the one a scan of the new snapshot gives.
RefreshTriggersNoScanWitness ==
  /\ calls = <<>>
  /\ lastScan # Undefined
  /\ lastScan.snapshot # resources
  /\ decorations # <<>>
  /\ resources # <<>>
  /\ Range(decorations) =
       ExpectedAnnotations(lastScan.lines, lastScan.active, lastScan.snapshot)
  /\ Range(decorations) # ExpectedAnnotations(doc, cursor, resources)

(***************************************************************************)
(* C16. The hover payload for a position depends on the hovered line and   *)
(* the snapshot only, not on the column: it is built from the first token  *)
(* occurrence of the line (the path block, then that resource's code       *)
(* block) when its id resolves, and is absent otherwise; a later token of  *)
(* the line never gets a hover of its own.                                 *)
(***************************************************************************)
HoverIsOfFirstTokenOfLine ==
  (query # Undefined /\ query.kind = "hover") =>
    LET onLine == {o \in DocOccurrences(query.lines) : o.line = query.position.line}
        first == {o \in onLine : \A other \in onLine : o.index <= other.index}
    IN IF \E o \in first : Resolves(o, query.snapshot)
       THEN \A o \in first :
              query.result =
                [blocks |->
                   <<[language |-> "typescript",
                      code |-> PathOf(RecordFor(o, query.snapshot), query.snapshot)],
                     [language |-> "css",
                      code |-> RecordFor(o, query.snapshot).code]>>]
       ELSE query.result = Undefined

\* A hover on the second token of a line, whose id resolves, answered with
\* the path of the first token and not with its own.
HoverIsOfFirstTokenOfLineWitness ==
  /\ query # Undefined /\ query.kind = "hover"
  /\ query.result # Undefined
  /\ \E o \in DocOccurrences(query.lines) :
       /\ o.index > 0
       /\ OnToken(o, query.position)
       /\ Resolves(o, query.snapshot)
       /\ query.result.blocks[1].code #
            PathOf(RecordFor(o, query.snapshot), query.snapshot)

(***************************************************************************)
(* C17. extension.refreshResources shows its notification without waiting  *)
(* for the fetch: the notification is out while the fetch it started has   *)
(* yet to settle, and also when that fetch fails later.                    *)
(* extension.refreshResourcesAndCompletion shows its notification only     *)
(* after its fetch has settled.                                            *)
(***************************************************************************)
NotificationOrder ==
  /\ \A i \in DOMAIN calls :
       /\ calls[i].command = "refreshResources" => calls[i].notified
       /\ calls[i].command = "refreshResourcesAndCompletion" => ~calls[i].notified
  /\ returned # Undefined =>
       /\ returned.command = "refreshResources" => returned.notified
       /\ returned.command = "refreshResourcesAndCompletion" => returned.notified
       /\ returned.command = "activate" => ~returned.notified

\* A call by the second command has returned after its fetch failed, its
\* notification shown; a call by the first command is in flight, its fetch
\* without an answer yet and its notification shown already, and another
\* by the second command is in flight with no notification yet.
NotificationOrderWitness ==
  /\ returned # Undefined
  /\ returned.command = "refreshResourcesAndCompletion"
  /\ returned.failed /\ returned.notified
  /\ \E i, j \in DOMAIN calls :
       /\ calls[i].command = "refreshResources"
       /\ calls[i].result = Pending /\ calls[i].notified
       /\ calls[j].command = "refreshResourcesAndCompletion"
       /\ ~calls[j].notified

====
